---- MODULE Spec2Model ----
(***************************************************************************)
(* Model of src/src/lib.rs: DagNode, DAG (a BTreeMap<u32, DagNode>) with   *)
(* add_node / in_degree, and TopologicalSort::sort (Kahn's algorithm).     *)
(*                                                                         *)
(* A DagNode is modelled by its only field, the sequence `sources`.        *)
(* A DAG is modelled by its only field `inner`, a function from the set of *)
(* keys to nodes.  Option<T> is modelled as a sequence of length at most   *)
(* one: None is <<>> and Some(x) is <<x>>.                                 *)
(***************************************************************************)
EXTENDS Naturals, Sequences, FiniteSets

VARIABLES
    inner,      \* self.inner of the DAG under test
    call,       \* the last public call: [op, id, node]
    ret,        \* what the last public call returned
    lastAdded,  \* history: id -> the node given by the last successful add_node(id, _)
    prevSort,   \* history: Some(what the previous sort() call returned), None when
                \* there was none or add_node was called since
    pc,         \* the caller's position: "idle" (no call made or its result dropped),
                \* "loop" (inside the while loop of sort()), "returned" (holding a result)
    s_inner,    \* sort(): the local `inner` (the working clone), line 60
    queue,      \* sort(): the local `queue`, line 62
    sorted      \* sort(): the local `sorted`, line 69

vars == <<inner, call, ret, lastAdded, prevSort, pc, s_inner, queue, sorted>>

(***************************************************************************)
(* Bounds of the model.                                                    *)
(***************************************************************************)
\* identifiers the operations are called with: 1..MaxId
MaxId == 3
\* total number of entries of all sources lists of a graph (stored or candidate)
MaxEdges == 3
\* the same, for the graphs of the runs checked for termination
MaxRunEdges == 2

NodeIds == 1..MaxId

(***************************************************************************)
(* Option, Vec and BTreeMap helpers.                                       *)
(***************************************************************************)
None == <<>>
Some(x) == <<x>>

\* the set of elements of a Vec
Range(s) == {s[i] : i \in 1..Len(s)}

\* BTreeMap::new()
EmptyMap == [k \in {} |-> <<>>]

\* BTreeMap::insert(k, v): the map afterwards
insert(m, k, v) == [x \in (DOMAIN m) \cup {k} |-> IF x = k THEN v ELSE m[x]]

\* BTreeMap::get(k) as an Option
get(m, k) == IF k \in DOMAIN m THEN Some(m[k]) ELSE None

\* BTreeMap iteration order: the keys of S in ascending order
RECURSIVE KeysAsc(_)
KeysAsc(S) ==
    IF S = {} THEN <<>>
    ELSE LET k == CHOOSE x \in S : \A y \in S : x <= y
         IN  <<k>> \o KeysAsc(S \ {k})

\* DagNode::sources_len
sources_len(node) == Len(node)

\* Iterator::position(|&src| src == x): Some(index of the first occurrence)
\* (indices count from 1 here, from 0 in Rust), None when x does not occur
position(s, x) ==
    IF \E i \in 1..Len(s) : s[i] = x
    THEN Some(CHOOSE i \in 1..Len(s) : s[i] = x /\ \A j \in 1..(i - 1) : s[j] # x)
    ELSE None

\* Vec::remove(pos): the vector without the element at pos
remove(s, pos) == [i \in 1..(Len(s) - 1) |-> IF i < pos THEN s[i] ELSE s[i + 1]]

\* Vec::contains / VecDeque::contains
contains(s, x) == \E i \in 1..Len(s) : s[i] = x

(***************************************************************************)
(* TopologicalSort::sort, lines 59-94.  A sort state is the record of the  *)
(* three locals [inner, queue, sorted].                                    *)
(*                                                                         *)
(* Where a state is computed and then read several times, it is bound by   *)
(* ranging over the singleton set of it (s \in {e}), so that it is computed *)
(* once: the value is the same as with e written in place of s.            *)
(***************************************************************************)

\* InitQueue with the test of line 64 left out: every key is queued
InitQueue_all(m, ks) == ks

\* InitQueue walking the keys in descending order
RECURSIVE InitQueue_desc(_, _)
InitQueue_desc(m, ks) ==
    IF ks = <<>> THEN <<>>
    ELSE InitQueue_desc(m, Tail(ks))
         \o (IF sources_len(m[Head(ks)]) = 0 THEN <<Head(ks)>> ELSE <<>>)

\* lines 62-67: the queue starts with the keys whose sources list is empty,
\* in ascending key order
RECURSIVE InitQueue(_, _)
InitQueue(m, ks) ==
    IF ks = <<>> THEN <<>>
    ELSE (IF sources_len(m[Head(ks)]) = 0 THEN <<Head(ks)>> ELSE <<>>)
         \o InitQueue(m, Tail(ks))

\* SortInit dropping from the working copy the sources that are no keys
SortInit_ignore_unknown(m) ==
    [inner  |-> [k \in DOMAIN m |-> SelectSeq(m[k], LAMBDA x : x \in DOMAIN m)],
     queue  |-> InitQueue(m, KeysAsc(DOMAIN m)),
     sorted |-> <<>>]

\* lines 60-69
SortInit(m) ==
    [inner |-> m, queue |-> InitQueue(m, KeysAsc(DOMAIN m)), sorted |-> <<>>]

\* ScanNode with the test of line 77 left out: a node is queued as soon as one
\* of its sources has been removed
ScanNode_eager(st, other_id, node_id) ==
    LET node == st.inner[other_id]
        pos  == position(node, node_id)
    IN  IF pos = None THEN st
        ELSE LET inner2 == [st.inner EXCEPT ![other_id] = remove(node, pos[1])]
             IN  IF ~contains(st.sorted, other_id) /\ ~contains(st.queue, other_id)
                 THEN [st EXCEPT !.inner = inner2,
                                 !.queue = Append(st.queue, other_id)]
                 ELSE [st EXCEPT !.inner = inner2]

\* ScanNode with the tests of lines 77 and 81 left out: a node is queued each
\* time one of its sources is removed
ScanNode_requeue(st, other_id, node_id) ==
    LET node == st.inner[other_id]
        pos  == position(node, node_id)
    IN  IF pos = None THEN st
        ELSE [st EXCEPT !.inner = [st.inner EXCEPT ![other_id] = remove(node, pos[1])],
                        !.queue = Append(st.queue, other_id)]

\* lines 75-85: the body of the scan for one (other_id, node)
ScanNode(st, other_id, node_id) ==
    LET node == st.inner[other_id]
        pos  == position(node, node_id)
    IN  IF pos = None THEN st
        ELSE LET node2 == remove(node, pos[1])
                 inner2 == [st.inner EXCEPT ![other_id] = node2]
             IN  IF sources_len(node2) = 0
                    /\ ~contains(st.sorted, other_id)
                    /\ ~contains(st.queue, other_id)
                 THEN [st EXCEPT !.inner = inner2,
                                 !.queue = Append(st.queue, other_id)]
                 ELSE [st EXCEPT !.inner = inner2]

\* line 74: for (&other_id, node) in inner.iter_mut(), over the keys ks
RECURSIVE Scan(_, _, _)
Scan(st, ks, node_id) ==
    IF ks = <<>> THEN st
    ELSE CHOOSE r \in {Scan(s, Tail(ks), node_id) : s \in {ScanNode(st, Head(ks), node_id)}} : TRUE

\* SortPop putting the popped identifier back at the end of the queue instead
\* of emitting it
SortPop_requeue(st) == [st EXCEPT !.queue = Append(Tail(st.queue), Head(st.queue))]

\* lines 71-86: one iteration of the while loop (the queue is not empty)
SortPop(st) ==
    LET node_id == Head(st.queue)
        popped  == [st EXCEPT !.queue = Tail(st.queue),
                              !.sorted = Append(st.sorted, node_id)]
    IN  Scan(popped, KeysAsc(DOMAIN st.inner), node_id)

\* lines 71-87: the while loop
RECURSIVE SortLoop(_)
SortLoop(st) ==
    IF st.queue = <<>> THEN st
    ELSE CHOOSE r \in {SortLoop(s) : s \in {SortPop(st)}} : TRUE

\* SortResult with the length test of line 89 left out
SortResult_unchecked(st) == Some(st.sorted)

\* lines 89-93
SortResult(st) ==
    IF Len(st.sorted) # Cardinality(DOMAIN st.inner) THEN None ELSE Some(st.sorted)

\* lines 59-94
sort(m) ==
    CHOOSE r \in {SortResult(s) : s \in {SortLoop(s0) : s0 \in {SortInit(m)}}} : TRUE

(***************************************************************************)
(* DAG::add_node, lines 34-44, and DAG::in_degree, lines 46-49.            *)
(***************************************************************************)

\* add_node with the validation of lines 38-40 left out
add_node_unchecked(m, node_id, node) ==
    [inner |-> insert(m, node_id, node), ok |-> TRUE, prev |-> get(m, node_id)]

\* add_node inserting into self instead of the clone of line 35
add_node_in_place(m, node_id, node) ==
    LET cloned == insert(m, node_id, node)
    IN  IF sort(cloned) = None
        THEN [inner |-> cloned, ok |-> FALSE, prev |-> None]
        ELSE [inner |-> cloned, ok |-> TRUE, prev |-> get(m, node_id)]

\* add_node reading the previous node after the insert of line 36
add_node_prev_after(m, node_id, node) ==
    LET cloned == insert(m, node_id, node)
    IN  IF sort(cloned) = None
        THEN [inner |-> m, ok |-> FALSE, prev |-> None]
        ELSE [inner |-> cloned, ok |-> TRUE, prev |-> get(cloned, node_id)]

\* add_node with the test of line 38 negated (is_some for is_none)
add_node_negated(m, node_id, node) ==
    LET cloned == insert(m, node_id, node)
    IN  IF sort(cloned) # None
        THEN [inner |-> m, ok |-> FALSE, prev |-> None]
        ELSE [inner |-> cloned, ok |-> TRUE, prev |-> get(m, node_id)]

\* add_node committing the map the trial sort worked on (a sort that consumed
\* the clone instead of a copy of it)
add_node_commit_sorted(m, node_id, node) ==
    LET cloned == insert(m, node_id, node)
    IN  IF sort(cloned) = None
        THEN [inner |-> m, ok |-> FALSE, prev |-> None]
        ELSE [inner |-> insert(SortLoop(SortInit(cloned)).inner, node_id, node),
              ok |-> TRUE, prev |-> get(m, node_id)]

\* the result of add_node on the map m: the map afterwards, Ok/Err, and the
\* Option carried by Ok
add_node(m, node_id, node) ==
    LET cloned == insert(m, node_id, node)
        prev   == get(m, node_id)
    IN  IF sort(cloned) = None
        THEN [inner |-> m, ok |-> FALSE, prev |-> None]
        ELSE [inner |-> insert(m, node_id, cloned[node_id]), ok |-> TRUE, prev |-> prev]

\* in_degree answering 0 for an absent key
in_degree_default(m, node) ==
    IF get(m, node) = None THEN Some(0) ELSE Some(Len(get(m, node)[1]))

\* lines 46-49
in_degree(m, node) ==
    IF get(m, node) = None THEN None ELSE Some(Len(get(m, node)[1]))

(***************************************************************************)
(* Inputs.                                                                 *)
(***************************************************************************)
RECURSIVE TotalLen(_, _)
TotalLen(m, S) ==
    IF S = {} THEN 0
    ELSE LET k == CHOOSE x \in S : TRUE
         IN  Len(m[k]) + TotalLen(m, S \ {k})

\* the number of sources entries of the whole map
Edges(m) == TotalLen(m, DOMAIN m)

\* the sum of the lengths L[k] over the keys k of S
RECURSIVE SumLen(_, _)
SumLen(L, S) ==
    IF S = {} THEN 0
    ELSE LET k == CHOOSE x \in S : TRUE
         IN  L[k] + SumLen(L, S \ {k})

\* the map with key set S whose sources lists have the lengths L and are, in
\* ascending key order, the consecutive pieces of the sequence flat
Pieces(S, L, flat) ==
    [k \in S |-> [i \in 1..L[k] |-> flat[SumLen(L, {j \in S : j < k}) + i]]]

\* the fixtures the tests build with inner.insert, lines 109-113 and 138-141
dag_acyclic == insert(insert(insert(insert(EmptyMap, 1, <<>>), 2, <<1>>), 3, <<1>>), 4, <<2, 3>>)
dag_cyclic == insert(insert(insert(EmptyMap, 1, <<3>>), 2, <<1>>), 3, <<2>>)

NoCall == [op |-> "new"]
NoRet == [op |-> "new"]

(***************************************************************************)
(* Spec: a DAG created by DAG::new() and used through its public           *)
(* operations, each one atomic.                                            *)
(***************************************************************************)
SortIdle ==
    /\ pc = "idle"
    /\ s_inner = EmptyMap
    /\ queue = <<>>
    /\ sorted = <<>>

Init ==
    /\ inner = EmptyMap
    /\ call = NoCall
    /\ ret = NoRet
    /\ lastAdded = EmptyMap
    /\ prevSort = None
    /\ SortIdle

\* dag.add_node(node_id, node), lines 34-44
AddNode(node_id, node) ==
    /\ pc = "idle"
    /\ pc' = "returned"
    /\ call' = [op |-> "add_node", id |-> node_id, node |-> node]
    /\ \E r \in {add_node(inner, node_id, node)} :
           /\ inner' = r.inner
           /\ ret' = [op |-> "add_node", ok |-> r.ok, prev |-> r.prev]
           /\ lastAdded' = IF r.ok THEN insert(lastAdded, node_id, node) ELSE lastAdded
    /\ prevSort' = None
    /\ UNCHANGED <<s_inner, queue, sorted>>

\* dag.in_degree(node), lines 46-49
InDegree(node) ==
    /\ pc = "idle"
    /\ pc' = "returned"
    /\ call' = [op |-> "in_degree", id |-> node]
    /\ ret' = [op |-> "in_degree", val |-> in_degree(inner, node)]
    /\ UNCHANGED <<inner, lastAdded, prevSort, s_inner, queue, sorted>>

\* dag.sort(), lines 59-94
Sort ==
    /\ pc = "idle"
    /\ pc' = "returned"
    /\ call' = [op |-> "sort"]
    /\ ret' = [op |-> "sort", val |-> sort(inner)]
    /\ UNCHANGED <<inner, lastAdded, prevSort, s_inner, queue, sorted>>

\* the caller lets go of the returned value (and of the locals of the call)
Drop ==
    /\ pc = "returned"
    /\ pc' = "idle"
    /\ call' = NoCall
    /\ ret' = NoRet
    /\ s_inner' = EmptyMap
    /\ queue' = <<>>
    /\ sorted' = <<>>
    /\ prevSort' = IF ret.op = "sort" THEN Some(ret.val) ELSE prevSort
    /\ UNCHANGED <<inner, lastAdded>>

\* the longest sources list a call may pass for node_id so that the candidate
\* map stays within MaxEdges
MaxSources(node_id) == MaxEdges - TotalLen(inner, (DOMAIN inner) \ {node_id})

Next ==
    \/ \E node_id \in NodeIds : \E len \in 0..MaxSources(node_id) :
           \E node \in [1..len -> NodeIds] : AddNode(node_id, node)
    \/ \E node \in NodeIds : InDegree(node)
    \/ Sort
    \/ Drop

Spec == Init /\ [][Next]_vars

(***************************************************************************)
(* SpecSort: sort() observed one loop iteration at a time, and in_degree,   *)
(* on any stored graph (built directly, as the tests do).                  *)
(***************************************************************************)
\* the graph is stored directly, without add_node: any map over a subset S of
\* NodeIds with at most e sources entries (of lengths L), or a fixture
StoredDirectly(e) ==
    \/ \E S \in SUBSET NodeIds : \E L \in [S -> 0..e] :
          /\ SumLen(L, S) <= e
          /\ \E flat \in [1..SumLen(L, S) -> NodeIds] : inner = Pieces(S, L, flat)
    \/ inner \in {dag_acyclic, dag_cyclic}

InitSort ==
    /\ StoredDirectly(MaxEdges)
    /\ call = NoCall
    /\ ret = NoRet
    /\ lastAdded = EmptyMap
    /\ prevSort = None
    /\ SortIdle

\* lines 60-69
SortStart ==
    /\ pc = "idle"
    /\ pc' = "loop"
    /\ call' = [op |-> "sort"]
    /\ ret' = NoRet
    /\ \E st \in {SortInit(inner)} :
           /\ s_inner' = st.inner
           /\ queue' = st.queue
           /\ sorted' = st.sorted
    /\ UNCHANGED <<inner, lastAdded, prevSort>>

\* SortStep working on self.inner itself (line 60 without the clone)
SortStep_in_place ==
    /\ pc = "loop"
    /\ queue # <<>>
    /\ \E st \in {SortPop([inner |-> s_inner, queue |-> queue, sorted |-> sorted])} :
           /\ s_inner' = st.inner
           /\ inner' = st.inner
           /\ queue' = st.queue
           /\ sorted' = st.sorted
    /\ UNCHANGED <<call, ret, lastAdded, prevSort, pc>>

\* lines 71-86, one iteration
SortStep ==
    /\ pc = "loop"
    /\ queue # <<>>
    /\ \E st \in {SortPop([inner |-> s_inner, queue |-> queue, sorted |-> sorted])} :
           /\ s_inner' = st.inner
           /\ queue' = st.queue
           /\ sorted' = st.sorted
    /\ UNCHANGED <<inner, call, ret, lastAdded, prevSort, pc>>

\* lines 87-94: the loop ends and the result is returned
SortReturn ==
    /\ pc = "loop"
    /\ queue = <<>>
    /\ pc' = "returned"
    /\ ret' = [op |-> "sort",
               val |-> SortResult([inner |-> s_inner, queue |-> queue, sorted |-> sorted])]
    /\ UNCHANGED <<inner, call, lastAdded, prevSort, s_inner, queue, sorted>>

NextSort ==
    \/ SortStart
    \/ SortStep
    \/ SortReturn
    \/ \E node \in NodeIds : InDegree(node)
    \/ Drop

SpecSort == InitSort /\ [][NextSort]_vars

\* one sort() call on a stored graph
NextRun ==
    \/ SortStart
    \/ SortStep
    \/ SortReturn

\* sort() is a synchronous call: once entered, its loop keeps running and the
\* call returns when the loop ends
InitRun ==
    /\ StoredDirectly(MaxRunEdges)
    /\ call = NoCall
    /\ ret = NoRet
    /\ lastAdded = EmptyMap
    /\ prevSort = None
    /\ SortIdle

SpecSortFair == InitRun /\ [][NextRun]_vars /\ WF_vars(SortStep) /\ WF_vars(SortReturn)

(***************************************************************************)
(* Vocabulary of the properties.                                           *)
(***************************************************************************)
\* the identifiers the node n of m lists as sources
SrcSet(m, n) == IF n \in DOMAIN m THEN Range(m[n]) ELSE {}

\* the identifiers reachable from the set S by following sources, S included
RECURSIVE Closure(_, _)
Closure(m, S) ==
    CHOOSE r \in {IF T = S THEN S ELSE Closure(m, T)
                  : T \in {S \cup UNION {SrcSet(m, x) : x \in S}}} : TRUE

\* the identifiers n depends on, directly or transitively
Reachable(m, n) == Closure(m, SrcSet(m, n))

\* some node is reachable from itself (a self-reference included)
HasCycle(m) == \E n \in DOMAIN m : n \in Reachable(m, n)

\* some node depends, directly or transitively, on an identifier that is no key
HasDangling(m) == \E n \in DOMAIN m : \E p \in Reachable(m, n) : p \notin DOMAIN m

\* the sources list names some identifier more than once
HasRepeat(node) == \E i, j \in 1..Len(node) : i < j /\ node[i] = node[j]

\* p occurs in order, and at a strictly smaller position than n
Precedes(order, p, n) ==
    /\ position(order, p) # None
    /\ position(order, n) # None
    /\ position(order, p)[1] < position(order, n)[1]

\* the map add_node(call.id, call.node) validates, seen from the state before
Candidate(m) == insert(m, call.id, call.node)

AddReturned == pc = "returned" /\ ret.op = "add_node"
SortReturned == pc = "returned" /\ ret.op = "sort"

(***************************************************************************)
(* Properties.                                                             *)
(***************************************************************************)

\* C1: from the empty graph, after any sequence of add_node calls (accepted or
\* rejected) the stored graph is acyclic and sort() on it returns Some.
C1_StoredGraphAcyclic == ~HasCycle(inner) /\ sort(inner) # None

\* C1: a call was just rejected on a graph of three nodes with edges
C1_Witness ==
    /\ AddReturned /\ ~ret.ok
    /\ Cardinality(DOMAIN inner) >= 3
    /\ Edges(inner) >= 2

\* C2: an add_node call that returns an error leaves the stored mapping as it
\* was: same keys, same sources lists, hence same in_degree and sort results.
C2_ErrorLeavesGraph ==
    [][(ret'.op = "add_node" /\ ~ret'.ok)
         => /\ inner' = inner
            /\ DOMAIN inner' = DOMAIN inner
            /\ \A k \in NodeIds : in_degree(inner', k) = in_degree(inner, k)
            /\ sort(inner') = sort(inner)]_vars

\* C2: a rejected call tried to overwrite a stored node with a different one
C2_Witness ==
    /\ AddReturned /\ ~ret.ok
    /\ call.id \in DOMAIN inner
    /\ inner[call.id] # call.node

\* C3: when sort() returns Some(order) on any stored graph, every source p of
\* every node n occurs in order strictly before n; for the graph 1:[], 2:[1],
\* 3:[1], 4:[2,3] an order is returned with 1 before 2 and 3, and 2 and 3 before 4.
C3_SortValid ==
    /\ (SortReturned /\ ret.val # None)
         => \A n \in DOMAIN inner : \A p \in Range(inner[n]) : Precedes(ret.val[1], p, n)
    /\ (SortReturned /\ inner = dag_acyclic)
         => /\ ret.val # None
            /\ Precedes(ret.val[1], 1, 2) /\ Precedes(ret.val[1], 1, 3)
            /\ Precedes(ret.val[1], 2, 4) /\ Precedes(ret.val[1], 3, 4)

\* C3: sort() has returned the order of the fixture of the first test
C3_Witness == SortReturned /\ inner = dag_acyclic /\ ret.val = Some(<<1, 2, 3, 4>>)

\* C4: when sort() returns Some(order), order is a permutation of the keys: as
\* long as the number of nodes, every key in it, nothing else, nothing twice.
C4_SortPermutation ==
    (SortReturned /\ ret.val # None)
      => /\ Len(ret.val[1]) = Cardinality(DOMAIN inner)
         /\ Range(ret.val[1]) = DOMAIN inner
         /\ ~HasRepeat(ret.val[1])

\* C4: sort() has returned an order of a graph of three nodes and three edges
C4_Witness ==
    /\ SortReturned /\ ret.val # None
    /\ Cardinality(DOMAIN inner) = 3
    /\ Edges(inner) = 3

\* C5: on any stored graph sort() returns None if and only if the graph has a
\* cycle or a node that depends on an identifier that is not a key.
C5_NoneIffCycleOrDangling ==
    SortReturned => ((ret.val = None) <=> (HasCycle(inner) \/ HasDangling(inner)))

\* C6: when add_node(id, node) succeeds, the graph maps id to the given node
\* and the call returns the node stored at id before it, None if there was none.
C6_SuccessStoresNode ==
    [][(ret'.op = "add_node" /\ ret'.ok)
         => /\ call'.id \in DOMAIN inner'
            /\ inner'[call'.id] = call'.node
            /\ ret'.prev = get(inner, call'.id)]_vars

\* C6: an accepted call has replaced a stored node by a different one
C6_Witness ==
    /\ AddReturned /\ ret.ok
    /\ ret.prev # None
    /\ ret.prev[1] # call.node

\* C7: add_node(id, node) returns the error whenever id is reachable from itself
\* in the graph obtained by mapping id to node.
C7_CycleRejected ==
    [][(call'.op = "add_node"
          /\ call'.id \in Reachable(insert(inner, call'.id, call'.node), call'.id))
         => ~ret'.ok]_vars

\* C7: a rejected call tried to overwrite a stored id with a node that depends
\* on id only through another node (neither itself nor a direct dependent of id)
C7_Witness ==
    /\ AddReturned /\ ~ret.ok
    /\ call.id \in DOMAIN inner
    /\ call.id \notin Range(call.node)
    /\ \A p \in Range(call.node) : p \in DOMAIN inner /\ call.id \notin SrcSet(inner, p)
    /\ call.id \in Reachable(Candidate(inner), call.id)

\* C8: for every identifier, in_degree is None iff the identifier is no key, and
\* otherwise the length of the sources list of the node stored there, which is
\* the node of the last successful add_node for it.
C8_InDegree ==
    /\ \A id \in NodeIds :
         /\ (in_degree(inner, id) = None) <=> (id \notin DOMAIN inner)
         /\ id \in DOMAIN inner
              => /\ in_degree(inner, id) = Some(Len(inner[id]))
                 /\ id \in DOMAIN lastAdded
                 /\ inner[id] = lastAdded[id]
    /\ (pc = "returned" /\ ret.op = "in_degree") => ret.val = in_degree(inner, call.id)

\* C8: in_degree has returned 2 for a stored node
C8_Witness == pc = "returned" /\ ret.op = "in_degree" /\ ret.val = Some(2)

\* C9: a node that lists an existing predecessor more than once is accepted by
\* add_node when every source exists and the graph is otherwise acyclic, and
\* sort() returns Some.
C9_RepeatedSourceAccepted ==
    (/\ AddReturned
     /\ HasRepeat(call.node)
     /\ Range(call.node) \subseteq (DOMAIN inner) \ {call.id}
     /\ ~HasCycle(Candidate(inner)))
      => (ret.ok /\ sort(inner) # None)

\* C10: after add_node(id, [p]) on the empty graph, p never inserted, sort()
\* on the graph returns None.
C10_DanglingThenSortNone ==
    (/\ AddReturned
     /\ Len(call.node) = 1
     /\ call.node[1] # call.id
     /\ \/ ret.ok /\ ret.prev = None /\ DOMAIN inner = {call.id}
        \/ ~ret.ok /\ inner = EmptyMap)
      => sort(inner) = None

\* the keys of m whose sources list is empty
Roots(m) == {n \in DOMAIN m : Len(m[n]) = 0}

\* C11: add_node(id, node) returns an error if and only if sort() of the
\* candidate graph (id mapped to node) is None, Ok if and only if it is Some;
\* sort and in_degree return an Option and never an error.
C11_ErrorIffCandidateUnsortable ==
    [][/\ call'.op = "add_node"
            => /\ (~ret'.ok) <=> (sort(insert(inner, call'.id, call'.node)) = None)
               /\ ret'.ok <=> (sort(insert(inner, call'.id, call'.node)) # None)
       /\ ret'.op \in {"sort", "in_degree"} => DOMAIN ret' = {"op", "val"}]_vars

\* C11: a call was rejected for a candidate with no cycle and no missing source
C11_Witness ==
    /\ AddReturned /\ ~ret.ok
    /\ HasRepeat(call.node)
    /\ Range(call.node) \subseteq DOMAIN inner
    /\ ~HasCycle(Candidate(inner))

\* C12: sort() and in_degree() leave the stored mapping as it was, on every
\* stored graph, cyclic ones included, although the sort removes entries from
\* its working copy; two consecutive sort() calls return the same result.
C12_QueriesPure ==
    [][/\ inner' = inner
       /\ (ret'.op = "sort" /\ prevSort # None) => ret'.val = prevSort[1]]_vars

\* C12: a second sort() in a row has returned on a cyclic graph, its working
\* copy having lost entries the stored graph still has
C12_Witness ==
    /\ SortReturned
    /\ prevSort # None
    /\ HasCycle(inner)
    /\ s_inner # inner

\* C13: a successful add_node(id, node) changes only the entry of id: the key
\* set becomes the previous one plus id, every other key keeps its node, and
\* over any step no key is removed and the number of nodes does not decrease.
C13_SuccessChangesOnlyId ==
    [][/\ (ret'.op = "add_node" /\ ret'.ok)
            => /\ DOMAIN inner' = (DOMAIN inner) \cup {call'.id}
               /\ \A k \in (DOMAIN inner) \ {call'.id} : inner'[k] = inner[k]
       /\ DOMAIN inner \subseteq DOMAIN inner'
       /\ Cardinality(DOMAIN inner') >= Cardinality(DOMAIN inner)]_vars

\* C13: an accepted call has added a third key to a graph with edges
C13_Witness ==
    /\ AddReturned /\ ret.ok
    /\ ret.prev = None
    /\ Cardinality(DOMAIN inner) = 3
    /\ \E k \in (DOMAIN inner) \ {call.id} : Len(inner[k]) > 0

\* C14: at every step of a sort() run on any stored graph no identifier is twice
\* in the queue, twice in the output, or in both; an emitted identifier stays
\* emitted and a queued one stays queued until it is emitted.
C14_QueuedEmittedOnce ==
    [][/\ ~HasRepeat(queue') /\ ~HasRepeat(sorted')
       /\ Range(queue') \cap Range(sorted') = {}
       /\ (pc = "loop" /\ pc' = "loop")
            => /\ Range(sorted) \subseteq Range(sorted')
               /\ Range(queue) \subseteq Range(queue') \cup Range(sorted')]_vars

\* C14: a run on a graph with a repeated source is under way, with identifiers
\* emitted and identifiers queued
C14_Witness ==
    /\ pc = "loop"
    /\ Len(sorted) >= 1
    /\ Len(queue) >= 1
    /\ \E n \in DOMAIN inner : HasRepeat(inner[n])

\* C15: every sort() call terminates on every stored graph (cyclic, with
\* dangling or repeated sources): the loop ends after at most one pop per node.
C15_SortTerminates ==
    /\ [](Len(sorted) <= Cardinality(DOMAIN inner) /\ ~HasRepeat(sorted))
    /\ (pc = "loop") ~> (pc = "returned")

\* C15: a run on a graph with a cycle and a missing source has returned None
C15_Witness ==
    /\ SortReturned
    /\ HasCycle(inner)
    /\ HasDangling(inner)
    /\ ret.val = None

\* C16: sort() is a function of the stored graph, and when it returns
\* Some(order) the nodes with an empty sources list are the first entries of
\* order, in ascending identifier order, before any node with a predecessor.
C16_RootsFirstAscending ==
    SortReturned
      => /\ ret.val = sort(inner)
         /\ ret.val # None
              => /\ \A i \in 1..Cardinality(Roots(inner)) : ret.val[1][i] \in Roots(inner)
                 /\ \A i, j \in 1..Cardinality(Roots(inner)) :
                      i < j => ret.val[1][i] < ret.val[1][j]

\* C16: sort() has returned an order for a graph with two nodes without
\* sources and a node that depends on both
C16_Witness ==
    /\ SortReturned /\ ret.val # None
    /\ Cardinality(Roots(inner)) = 2
    /\ \E n \in DOMAIN inner : Range(inner[n]) = Roots(inner)

\* C17: add_node(id, node) returns an error whenever some source of node is not
\* already a key, cycle or not; the first accepted node of an empty graph has
\* no sources; every source of every stored node is a key other than the node.
C17_SourcesMustExist ==
    [][/\ (call'.op = "add_node" /\ ~(Range(call'.node) \subseteq DOMAIN inner))
            => ~ret'.ok
       /\ (ret'.op = "add_node" /\ ret'.ok /\ inner = EmptyMap) => call'.node = <<>>
       /\ \A n \in DOMAIN inner' : Range(inner'[n]) \subseteq (DOMAIN inner') \ {n}]_vars

\* C17: on a graph with nodes, a call was rejected whose node names a missing
\* identifier once, the candidate having no cycle
C17_Witness ==
    /\ AddReturned /\ ~ret.ok
    /\ inner # EmptyMap
    /\ ~HasRepeat(call.node)
    /\ ~(Range(call.node) \subseteq (DOMAIN inner) \cup {call.id})
    /\ ~HasCycle(Candidate(inner))

====
